---------------------------- MODULE Spec2Model ----------------------------
(***************************************************************************)
(* A model of fext's extended heap queue (src/fext/eheapq.hpp, EHeapQ) and *)
(* of the size-limited dictionary built on it (src/fext/edict.hpp, EDict). *)
(*                                                                         *)
(* An item of the heap is a pair <<k, v>>: two items are equal when both   *)
(* components are equal, and the compare looks at the second component     *)
(* only (DefaultCompare / PyObjectRichCmpPairLT), so distinct items may    *)
(* compare as equivalent.  Array positions are the 0-based positions of    *)
(* the C++ code; the sequence that carries the array is 1-based, so        *)
(* position p is element p + 1 of the sequence.                            *)
(***************************************************************************)
EXTENDS Integers, Sequences, FiniteSets, TLC

VARIABLES hq,    \* the EHeapQ object
          res,   \* the outcome of the last call on hq
          log,   \* the calls made so far (kept by the history specifications)
          ed,    \* the EDict object
          eres,  \* the outcome of the last call on ed
          key_map  \* the keys of PyObjectCompare (the heap of the Python binding)

vars == <<hq, res, log, ed, eres, key_map>>

-----------------------------------------------------------------------------
(* Bounds of the model *)

MaxItem == 3      \* items of the heap specifications: <<i, i>>, i in 1..MaxItem
MaxSize == 3      \* the sizes given to the constructor and to set_size: 0..MaxSize
MaxLoad == 4      \* items of the push-only and load-then-drain specifications: 1..MaxLoad
MaxHeap == 4      \* the longest array of the specification with failing comparisons
MaxReplace == 5   \* length of the call history of the set_or_replace specification
MaxCalls == 4     \* length of the call history of the dictionary specification
MaxKey == 2       \* the keys given to the binding's push and pushpop: 1..MaxKey
MaxObject == 2    \* the objects given to the binding: 1..MaxObject

-----------------------------------------------------------------------------
(* Values of the program *)

\* std::numeric_limits<size_t>::max().  TLC's integers are 32 bits wide; the
\* code only compares a length with it, and no array of the model is that long.
EHEAPQ_DEFAULT_SIZE == 2147483647

EDICT_DEFAULT_SIZE == 2147483647

\* A default-constructed T: the content of last_item and max_item before the
\* first assignment (read by the code only when the matching flag is set).
NoItem == <<0, 0>>

NoExc == "none"

\* Values that PyObject_RichCompareBool cannot order against the others, but
\* can order against one another.
Unorderable == {0 - 1, 0 - 2}

Items == {<<i, i>> : i \in 1..MaxItem}

Sizes == 0..MaxSize

-----------------------------------------------------------------------------
(* The compare *)

\* What an element of the binding's heap carries in place of a key when
\* key_map has no key for it.
NoKey == 0 - 3

\* The compare throws when the two values cannot be ordered (ObjCmpErr), and
\* PyObjectCompare throws when key_map->at() finds no key for one of the two
\* elements (std::out_of_range).
CmpThrows(a, b) ==
  \/ (a[2] \in Unorderable) # (b[2] \in Unorderable)
  \/ a[2] = NoKey
  \/ b[2] = NoKey

\* A variant of the compare: the comparison the other way round.
comp_greater(a, b) == a[2] > b[2]

comp(a, b) == a[2] < b[2]

-----------------------------------------------------------------------------
(* std::unordered_map and std::vector *)

EmptyMap == [x \in {} |-> 0]

\* unordered_map::insert: an existing key keeps its value.
MapInsert(m, k, v) ==
  IF k \in DOMAIN m THEN m
  ELSE [x \in (DOMAIN m) \cup {k} |-> IF x = k THEN v ELSE m[x]]

\* unordered_map::erase(key): no effect when the key is absent.
MapErase(m, k) == [x \in (DOMAIN m) \ {k} |-> m[x]]

PopBack(v) == SubSeq(v, 1, Len(v) - 1)

Range(v) == {v[i] : i \in 1..Len(v)}

Raise(s, e) == [s EXCEPT !.exc = e]

\* index_map->at(k) = v: throws std::out_of_range when k is not a key.
AtPut(s, k, v) ==
  IF k \in DOMAIN s.index_map
  THEN [s EXCEPT !.index_map[k] = v]
  ELSE Raise(s, "out_of_range")

-----------------------------------------------------------------------------
(* EHeapQ: the object and a call's working state *)

\* underflow: the vector after pop_back() on an empty vector (undefined
\* behaviour), when the build carries on: its end pointer is one element
\* before its begin pointer and size() is SIZE_MAX.
EHeapQ(size) ==
  [heap |-> <<>>, underflow |-> FALSE, index_map |-> EmptyMap, size |-> size,
   last_item |-> NoItem, last_item_set |-> FALSE,
   max_item |-> NoItem, max_item_set |-> FALSE]

\* A call works on the object's fields plus: exc, the exception in flight;
\* ret, the value returned; cb, the items handed to removed_callback; ub, the
\* undefined behaviour the call ran into.
Begin(h) ==
  [heap |-> h.heap, underflow |-> h.underflow, index_map |-> h.index_map,
   size |-> h.size, last_item |-> h.last_item, last_item_set |-> h.last_item_set,
   max_item |-> h.max_item, max_item_set |-> h.max_item_set,
   exc |-> NoExc, ret |-> NoItem, cb |-> <<>>, ub |-> "none"]

Obj(s) ==
  [heap |-> s.heap, underflow |-> s.underflow, index_map |-> s.index_map,
   size |-> s.size, last_item |-> s.last_item, last_item_set |-> s.last_item_set,
   max_item |-> s.max_item, max_item_set |-> s.max_item_set]

get_size(h) == h.size

get_length(h) == IF h.underflow THEN EHEAPQ_DEFAULT_SIZE ELSE Len(h.heap)

throw_on_empty(s) == IF Len(s.heap) = 0 THEN Raise(s, "EHeapQEmpty") ELSE s

set_last_item(s, item) == [s EXCEPT !.last_item = item, !.last_item_set = TRUE]

set_max_item(s, item) == [s EXCEPT !.max_item = item, !.max_item_set = TRUE]

maybe_del_last_item(s, item) ==
  IF s.last_item_set /\ s.last_item = item
  THEN [s EXCEPT !.last_item_set = FALSE]
  ELSE s

maybe_del_max_item(s, item) ==
  IF s.max_item_set /\ s.max_item = item
  THEN [s EXCEPT !.max_item_set = FALSE]
  ELSE s

\* noexcept: a compare that throws here ends the process (std::terminate).
maybe_adjust_max(s, item) ==
  IF ~s.max_item_set THEN s
  ELSE IF CmpThrows(s.max_item, item) THEN Raise(s, "terminate")
  ELSE IF comp(s.max_item, item) THEN [s EXCEPT !.max_item = item]
  ELSE s

-----------------------------------------------------------------------------
(* The sifts *)

RECURSIVE siftdown_loop(_, _, _)
\* while (pos > startpos): swap arr[pos] with its parent while it compares
\* less than the parent; both array slots are written before index_map is.
siftdown_loop(s, startpos, pos) ==
  IF pos <= startpos THEN s
  ELSE
    LET parentpos == (pos - 1) \div 2
        newitem == s.heap[pos + 1]
        parent == s.heap[parentpos + 1]
    IN IF CmpThrows(newitem, parent) THEN Raise(s, "ObjCmpErr")
       ELSE IF ~comp(newitem, parent) THEN s
       ELSE
         LET s1 == [s EXCEPT !.heap[parentpos + 1] = newitem, !.heap[pos + 1] = parent]
             s2 == AtPut(s1, newitem, parentpos)
             s3 == IF s2.exc # NoExc THEN s2 ELSE AtPut(s2, parent, pos)
         IN IF s3.exc # NoExc THEN s3 ELSE siftdown_loop(s3, startpos, parentpos)

\* A variant of siftdown: the two positions swapped.
siftdown_swapped(s, startpos, pos) ==
  IF Len(s.heap) = 0 THEN s ELSE siftdown_loop(s, pos, startpos)

siftdown(s, startpos, pos) ==
  IF Len(s.heap) = 0 THEN s ELSE siftdown_loop(s, startpos, pos)

RECURSIVE siftup_loop(_, _, _)
\* while (pos < limit): move the smaller child up; then siftdown(startpos, pos).
siftup_loop(s, startpos, pos) ==
  LET endpos == Len(s.heap)
      limit == endpos \div 2
  IN IF pos >= limit THEN siftdown(s, startpos, pos)
     ELSE
       LET left == 2 * pos + 1
           two == left + 1 < endpos
       IN IF two /\ CmpThrows(s.heap[left + 1], s.heap[left + 2]) THEN Raise(s, "ObjCmpErr")
          ELSE
            LET childpos == IF two /\ ~comp(s.heap[left + 1], s.heap[left + 2])
                            THEN left + 1 ELSE left
                tmp1 == s.heap[childpos + 1]
                tmp2 == s.heap[pos + 1]
                s1 == [s EXCEPT !.heap[childpos + 1] = tmp2, !.heap[pos + 1] = tmp1]
                s2 == AtPut(s1, tmp2, childpos)
                s3 == IF s2.exc # NoExc THEN s2 ELSE AtPut(s2, tmp1, pos)
            IN IF s3.exc # NoExc THEN s3 ELSE siftup_loop(s3, startpos, childpos)

siftup(s, pos) == siftup_loop(s, pos, pos)

-----------------------------------------------------------------------------
(* EHeapQ: the public operations *)

get_top(s0) ==
  LET s == throw_on_empty(s0)
  IN IF s.exc # NoExc THEN s ELSE [s EXCEPT !.ret = s.heap[1]]

get_last(s) ==
  IF Len(s.heap) = 0 THEN Raise(s, "EHeapQEmpty")
  ELSE IF ~s.last_item_set THEN Raise(s, "EHeapQNoLast")
  ELSE [s EXCEPT !.ret = s.last_item]

\* A variant of clear: index_map is left as it is.
clear_heap_only(s) == [s EXCEPT !.heap = <<>>]

clear(s) == [s EXCEPT !.heap = <<>>, !.index_map = EmptyMap]

RECURSIVE peak_scan(_, _, _)
\* The for loop of get_peak over positions i..size-1; the result is the
\* working state with ret set, or with the compare's exception.
peak_scan(s, i, result) ==
  IF i >= Len(s.heap) THEN [s EXCEPT !.ret = result]
  ELSE IF CmpThrows(result, s.heap[i + 1]) THEN Raise(s, "ObjCmpErr")
  ELSE peak_scan(s, i + 1, IF comp(result, s.heap[i + 1]) THEN s.heap[i + 1] ELSE result)

\* The scan's result is stored in max_item; max_item_set is left as it is.
get_peak(s0) ==
  LET s == throw_on_empty(s0)
  IN IF s.exc # NoExc THEN s
     ELSE IF s.max_item_set THEN [s EXCEPT !.ret = s.max_item]
     ELSE
       LET half == Len(s.heap) \div 2
           r == peak_scan(s, half + 1, s.heap[half + 1])
       IN IF r.exc # NoExc THEN r ELSE [r EXCEPT !.max_item = r.ret]

\* A variant of pushpop: the root is replaced unless item is less than it.
pushpop_leq(s, item) ==
  IF item \in DOMAIN s.index_map THEN Raise(s, "EHeapQAlreadyPresent")
  ELSE IF Len(s.heap) > 0 /\ CmpThrows(s.heap[1], item) THEN Raise(s, "ObjCmpErr")
  ELSE IF Len(s.heap) > 0 /\ ~comp(item, s.heap[1]) THEN
    LET to_return == s.heap[1]
        s1 == [s EXCEPT !.heap[1] = item,
                        !.index_map = MapErase(MapInsert(@, item, 0), to_return)]
        s2 == siftup(s1, 0)
    IN IF s2.exc # NoExc THEN s2
       ELSE
         LET s3 == maybe_adjust_max(maybe_del_max_item(set_last_item(s2, item), item), item)
         IN IF s3.exc # NoExc THEN s3 ELSE [s3 EXCEPT !.ret = to_return]
  ELSE [s EXCEPT !.ret = item]

\* A variant of pushpop: the comparison with its operands swapped.
pushpop_swapped(s, item) ==
  IF item \in DOMAIN s.index_map THEN Raise(s, "EHeapQAlreadyPresent")
  ELSE IF Len(s.heap) > 0 /\ CmpThrows(s.heap[1], item) THEN Raise(s, "ObjCmpErr")
  ELSE IF Len(s.heap) > 0 /\ comp(item, s.heap[1]) THEN
    LET to_return == s.heap[1]
        s1 == [s EXCEPT !.heap[1] = item,
                        !.index_map = MapErase(MapInsert(@, item, 0), to_return)]
        s2 == siftup(s1, 0)
    IN IF s2.exc # NoExc THEN s2
       ELSE
         LET s3 == maybe_adjust_max(maybe_del_max_item(set_last_item(s2, item), item), item)
         IN IF s3.exc # NoExc THEN s3 ELSE [s3 EXCEPT !.ret = to_return]
  ELSE [s EXCEPT !.ret = item]

pushpop(s, item) ==
  IF item \in DOMAIN s.index_map THEN Raise(s, "EHeapQAlreadyPresent")
  ELSE IF Len(s.heap) > 0 /\ CmpThrows(s.heap[1], item) THEN Raise(s, "ObjCmpErr")
  ELSE IF Len(s.heap) > 0 /\ comp(s.heap[1], item) THEN
    LET to_return == s.heap[1]
        s1 == [s EXCEPT !.heap[1] = item,
                        !.index_map = MapErase(MapInsert(@, item, 0), to_return)]
        s2 == siftup(s1, 0)
    IN IF s2.exc # NoExc THEN s2
       ELSE
         LET s3 == maybe_adjust_max(maybe_del_max_item(set_last_item(s2, item), item), item)
         IN IF s3.exc # NoExc THEN s3 ELSE [s3 EXCEPT !.ret = to_return]
  ELSE [s EXCEPT !.ret = item]

\* The branch of push taken when the heap is full: pushpop, then the
\* callback on the item that came back unless it is the pushed item.
push_full(s, item) ==
  LET p == pushpop(s, item)
  IN IF p.exc # NoExc THEN p
     ELSE IF p.ret # item THEN [p EXCEPT !.cb = Append(@, p.ret), !.ret = NoItem]
     ELSE [p EXCEPT !.ret = NoItem]

\* The rest of push: append, sift towards the root (undone when the sift
\* throws), then the last item and the cached peak.
push_append(s, item) ==
  LET n == Len(s.heap)
      s1 == [s EXCEPT !.index_map = MapInsert(@, item, n), !.heap = Append(@, item)]
      s2 == siftdown(s1, 0, n)
  IN IF s2.exc # NoExc
     THEN [s2 EXCEPT !.index_map = MapErase(@, item), !.heap = PopBack(@)]
     ELSE
       LET s3 == set_last_item(s2, item)
       IN IF Len(s3.heap) = 1 THEN set_max_item(s3, item) ELSE maybe_adjust_max(s3, item)

\* removed_callback is the caller's; the model's caller always passes one.
push(s, item) ==
  IF item \in DOMAIN s.index_map THEN Raise(s, "EHeapQAlreadyPresent")
  ELSE IF get_length(s) = s.size THEN push_full(s, item)
  ELSE push_append(s, item)

pop(s0) ==
  LET s == throw_on_empty(s0)
  IN IF s.exc # NoExc THEN s
     ELSE
       LET result == s.heap[1]
           n == Len(s.heap)
           s1 == IF n > 1 THEN AtPut([s EXCEPT !.heap[1] = s.heap[n]], s.heap[n], 0) ELSE s
       IN IF s1.exc # NoExc THEN s1
          ELSE
            LET s2 == [s1 EXCEPT !.heap = PopBack(@), !.index_map = MapErase(@, result)]
                s3 == siftup(s2, 0)
            IN IF s3.exc # NoExc THEN s3
               ELSE [maybe_del_max_item(maybe_del_last_item(s3, result), result)
                       EXCEPT !.ret = result]

replace(s0, item) ==
  LET s == throw_on_empty(s0)
  IN IF s.exc # NoExc THEN s
     ELSE IF item \in DOMAIN s.index_map THEN Raise(s, "EHeapQAlreadyPresent")
     ELSE
       LET result == s.heap[1]
           s1 == [s EXCEPT !.heap[1] = item,
                           !.index_map = MapInsert(MapErase(@, result), item, 0)]
           s2 == siftup(s1, 0)
       IN IF s2.exc # NoExc THEN s2
          ELSE
            LET s3 == maybe_adjust_max(
                        maybe_del_max_item(set_last_item(s2, result), result), result)
            IN IF s3.exc # NoExc THEN s3 ELSE [s3 EXCEPT !.ret = result]

\* The label end: of remove.
remove_end(s, item) == maybe_del_last_item(maybe_del_max_item(s, item), item)

\* remove reads the item's position out of index_map and trusts it.  Two
\* uses of the position are undefined behaviour, reported in ub for the
\* caller to resolve:
\*   "oob_write"  the position is beyond the last element: the copy of the
\*                last element goes to spare storage of the vector;
\*   "pop_empty"  the array is empty: data()[size() - 1] is read before the
\*                array and pop_back() runs on an empty vector.
remove(s, item) ==
  LET size == Len(s.heap) IN
  IF item \notin DOMAIN s.index_map THEN Raise(s, "EHeapQNotFound")
  ELSE IF size > 0 /\ item = s.heap[size]
  THEN remove_end([s EXCEPT !.heap = PopBack(@), !.index_map = MapErase(@, item)], item)
  ELSE IF size = 0
  THEN [s EXCEPT !.ub = "pop_empty", !.underflow = TRUE,
                 !.index_map = MapErase(@, item), !.exc = "out_of_range"]
  ELSE
    LET idx == s.index_map[item]
        s1 == [s EXCEPT !.heap = PopBack(IF idx < size
                                         THEN [s.heap EXCEPT ![idx + 1] = s.heap[size]]
                                         ELSE s.heap),
                        !.index_map = MapErase(@, item),
                        !.ub = IF idx < size THEN "none" ELSE "oob_write"]
        s2 == IF idx < Len(s1.heap) THEN siftup(s1, idx) ELSE s1
        s3 == IF idx < Len(s1.heap) /\ s2.exc = NoExc THEN siftdown(s2, 0, idx) ELSE s2
    IN IF s3.exc # NoExc THEN s3 ELSE remove_end(s3, item)

RECURSIVE set_size_loop(_)
\* while (heap->size() > size) pop(); set_size is noexcept, so a pop that
\* throws ends the process.
set_size_loop(s) ==
  IF Len(s.heap) <= s.size THEN [s EXCEPT !.ret = NoItem]
  ELSE LET p == pop(s)
       IN IF p.exc # NoExc THEN Raise(p, "terminate") ELSE set_size_loop(p)

set_size(s, size) == set_size_loop([s EXCEPT !.size = size])

-----------------------------------------------------------------------------
(* Calls on the heap *)

\* The process has ended: std::terminate, or an abort on undefined behaviour.
Fatal == {"terminate", "abort"}

Exited == res.exc \in Fatal

\* No further call is modelled on an ended process, nor on a heap whose
\* vector has underflowed (every later access is outside its storage).
Live == ~Exited /\ ~hq.underflow

\* What a build can make of a call that ran into undefined behaviour: carry
\* on with the state the writes left, or abort (a checked build).
Outcomes(s) == IF s.ub = "none" THEN {s} ELSE {s, Raise(s, "abort")}

Result(op, arg, o) == [op |-> op, arg |-> arg, exc |-> o.exc, ret |-> o.ret, cb |-> o.cb]

\* One call on hq: s is the working state the operation ended in.
Call(op, arg, s) ==
  \E o \in Outcomes(s) :
    /\ hq' = IF o.exc \in Fatal THEN hq ELSE Obj(o)
    /\ res' = Result(op, arg, o)

Push(item) == Live /\ Call("push", item, push(Begin(hq), item))

PushPop(item) == Live /\ Call("pushpop", item, pushpop(Begin(hq), item))

Pop == Live /\ Call("pop", NoItem, pop(Begin(hq)))

Replace(item) == Live /\ Call("replace", item, replace(Begin(hq), item))

Remove(item) == Live /\ Call("remove", item, remove(Begin(hq), item))

SetSize(n) == Live /\ Call("set_size", NoItem, set_size(Begin(hq), n))

Clear == Live /\ Call("clear", NoItem, clear(Begin(hq)))

GetTop == Live /\ Call("get_top", NoItem, get_top(Begin(hq)))

GetLast == Live /\ Call("get_last", NoItem, get_last(Begin(hq)))

GetPeak == Live /\ Call("get_peak", NoItem, get_peak(Begin(hq)))

NoCall == [op |-> "new", arg |-> NoItem, exc |-> NoExc, ret |-> NoItem, cb |-> <<>>]

-----------------------------------------------------------------------------
(* EDict *)

\* The keys and values the dictionary specification draws from.
Keys == {"a", "b", "c"}

Values == {1, 5, 10}

\* The constructor: the heap of an EDict is built with the default size, so
\* the dictionary's own size is the only limit.
EDict(size) == [size |-> size, dict |-> EmptyMap, heap |-> EHeapQ(EHEAPQ_DEFAULT_SIZE)]

\* A call on the dictionary works on its fields plus: exc, the exception in
\* flight; ret, the value returned; added and removed, the pairs handed to
\* added_callback and removed_callback; calls, the callback invocations in
\* the order they were made; ub, the undefined behaviour the call ran into.
EBegin(d) ==
  [size |-> d.size, dict |-> d.dict, heap |-> d.heap,
   exc |-> NoExc, ret |-> 0, added |-> <<>>, removed |-> <<>>, calls |-> <<>>,
   ub |-> "none"]

EObj(e) == [size |-> e.size, dict |-> e.dict, heap |-> e.heap]

\* added_callback(key, value): a call through a NULL function pointer ends
\* the process.
call_added(e, cbs, key, value) ==
  IF cbs THEN [e EXCEPT !.added = Append(@, <<key, value>>),
                        !.calls = Append(@, [cb |-> "added", pair |-> <<key, value>>])]
  ELSE Raise(e, "abort")

\* EDict::set, after the eviction of removed: the removal callback, the erase
\* from dict, the added callback.
set_removed(e, key, value, cbs, removed) ==
  IF ~cbs THEN Raise(e, "abort")
  ELSE call_added([e EXCEPT !.removed = Append(@, removed),
                            !.calls = Append(@, [cb |-> "removed", pair |-> removed]),
                            !.dict = MapErase(@, removed[1])], cbs, key, value)

\* EDict::set, once the heap has popped (h, the state pop ended in).
set_evict(e, key, value, cbs, h) ==
  IF h.exc # NoExc THEN [e EXCEPT !.heap = Obj(h), !.exc = h.exc]
  ELSE set_removed([e EXCEPT !.heap = Obj(h)], key, value, cbs, h.ret)

\* EDict::set, once the pair is in heap and dict: the eviction when the heap
\* is longer than size, then the added callback.
set_inserted(e, key, value, cbs) ==
  IF get_length(e.heap) > e.size
  THEN set_evict(e, key, value, cbs, pop(Begin(e.heap)))
  ELSE call_added(e, cbs, key, value)

\* EDict::set, once the heap has pushed the pair (h, the state push ended in;
\* push is given no callback, so a callback it makes is a call through NULL).
set_pushed(e, key, value, cbs, h) ==
  IF h.exc # NoExc THEN [e EXCEPT !.heap = Obj(h), !.exc = h.exc]
  ELSE IF h.cb # <<>> THEN [e EXCEPT !.heap = Obj(h), !.exc = "abort"]
  ELSE set_inserted([e EXCEPT !.heap = Obj(h), !.dict = MapInsert(@, key, value)],
                    key, value, cbs)

\* EDict::set; cbs: the caller passed both callbacks (otherwise both are NULL).
set(e, key, value, cbs) ==
  IF key \in DOMAIN e.dict THEN Raise(e, "EDictAlreadyPresent")
  ELSE set_pushed(e, key, value, cbs, push(Begin(e.heap), <<key, value>>))

get(e, key) ==
  IF key \notin DOMAIN e.dict THEN Raise(e, "EDictKeyError")
  ELSE [e EXCEPT !.ret = e.dict[key]]

EDict_get_length(d) == Cardinality(DOMAIN d.dict)

\* EDict::remove, once the heap has removed the pair (h, the state the heap's
\* remove ended in).
EDict_remove_erase(e, key, h) ==
  IF h.exc # NoExc THEN [e EXCEPT !.heap = Obj(h), !.exc = h.exc, !.ub = h.ub]
  ELSE [e EXCEPT !.heap = Obj(h), !.ub = h.ub, !.ret = e.dict[key],
                 !.dict = MapErase(@, key)]

EDict_remove(e, key) ==
  IF key \notin DOMAIN e.dict THEN Raise(e, "EDictKeyError")
  ELSE EDict_remove_erase(e, key, remove(Begin(e.heap), <<key, e.dict[key]>>))

RECURSIVE EDict_set_size_loop(_, _)
\* while (heap->get_length() > size): pop the root and erase its key from
\* dict; set_size is noexcept, so a pop that throws ends the process.
EDict_set_size_loop(e, size) ==
  IF get_length(e.heap) <= size THEN e
  ELSE LET h == pop(Begin(e.heap))
       IN IF h.exc # NoExc THEN [e EXCEPT !.heap = Obj(h), !.exc = "terminate"]
          ELSE EDict_set_size_loop(
                 [e EXCEPT !.heap = Obj(h), !.dict = MapErase(@, h.ret[1])], size)

\* The evicted pairs are handed to no callback.
EDict_set_size(e, size) ==
  LET r == EDict_set_size_loop(e, size)
  IN IF r.exc # NoExc THEN r ELSE [r EXCEPT !.size = size]

EDict_clear(e) == [e EXCEPT !.dict = EmptyMap, !.heap = Obj(clear(Begin(e.heap)))]

\* The catch block of set_or_replace, entered with old found (r, the state
\* the failed set left; q, the state set(key, old->second) ended in): the
\* exception q ended with replaces the one in flight, otherwise the one in
\* flight is thrown again.
set_or_replace_rethrow(r, q) == IF q.exc # NoExc THEN q ELSE [q EXCEPT !.exc = r.exc]

\* set_or_replace after the try (r, the state set ended in).  When set threw
\* and old was found, the catch block reads old->second: old points into the
\* node that dict->erase(key) freed, so the read is undefined behaviour and
\* gives stale, whatever the freed memory holds; set is then called without
\* callbacks.
set_or_replace_after(key, cbs, stale, value_removed, r) ==
  IF r.exc = NoExc
  THEN IF cbs
       THEN [r EXCEPT !.removed = Append(@, <<key, value_removed>>),
                      !.calls = Append(@, [cb |-> "removed",
                                           pair |-> <<key, value_removed>>])]
       ELSE r
  ELSE IF r.exc \in {"terminate", "abort"} THEN r
  ELSE set_or_replace_rethrow(
         r, set([r EXCEPT !.exc = NoExc, !.ub = "use_after_free"], key, stale, FALSE))

\* set_or_replace with old found, once the heap has removed the old pair (h,
\* the state the heap's remove ended in).
set_or_replace_found(e, key, value, cbs, stale, h) ==
  IF h.exc # NoExc THEN [e EXCEPT !.heap = Obj(h), !.exc = h.exc, !.ub = h.ub]
  ELSE set_or_replace_after(
         key, cbs, stale, e.dict[key],
         set([e EXCEPT !.heap = Obj(h), !.ub = h.ub, !.dict = MapErase(@, key)],
             key, value, cbs))

\* EDict::set_or_replace; stale: what a read of the erased node gives.
set_or_replace(e, key, value, cbs, stale) ==
  IF key \in DOMAIN e.dict
  THEN set_or_replace_found(e, key, value, cbs, stale,
                            remove(Begin(e.heap), <<key, e.dict[key]>>))
  ELSE set(e, key, value, cbs)

\* The dictionary is not used by the heap specifications.
NoDict == EDict(0)

NoECall == [op |-> "new", key |-> "", value |-> 0, exc |-> NoExc, ret |-> 0,
            added |-> <<>>, removed |-> <<>>, calls |-> <<>>]

EResult(op, key, value, e) ==
  [op |-> op, key |-> key, value |-> value, exc |-> e.exc, ret |-> e.ret,
   added |-> e.added, removed |-> e.removed, calls |-> e.calls]

\* No further call is modelled on an ended process, nor on a dictionary
\* whose heap's vector has underflowed.
ELive == eres.exc \notin Fatal /\ ~ed.heap.underflow

\* What a build can make of a call that ran into undefined behaviour: carry
\* on, or abort where the undefined behaviour happens (a checked build),
\* which in every operation of EDict is before its first callback.
EOutcomes(e) ==
  IF e.ub = "none" THEN {e}
  ELSE {e, [e EXCEPT !.exc = "abort", !.added = <<>>, !.removed = <<>>, !.calls = <<>>]}

\* One call on ed: e is the working state the operation ended in.
ECall(op, key, value, e) ==
  \E o \in EOutcomes(e) :
    /\ ed' = IF o.exc \in Fatal THEN ed ELSE EObj(o)
    /\ eres' = EResult(op, key, value, o)

DictSet(key, value) == ELive /\ ECall("set", key, value, set(EBegin(ed), key, value, TRUE))

\* The values a read of an erased node can give.
StaleValues == Values \cup Unorderable

DictSetOrReplace(key, value) ==
  /\ ELive
  /\ \E stale \in StaleValues :
       ECall("set_or_replace", key, value,
             set_or_replace(EBegin(ed), key, value, TRUE, stale))

DictRemove(key) == ELive /\ ECall("remove", key, 0, EDict_remove(EBegin(ed), key))

DictSetSize(n) == ELive /\ ECall("set_size", "", n, EDict_set_size(EBegin(ed), n))

DictClear == ELive /\ ECall("clear", "", 0, EDict_clear(EBegin(ed)))

DictGet(key) == ELive /\ ECall("get", key, 0, get(EBegin(ed), key))

-----------------------------------------------------------------------------
(* ExtHeapQueue: the Python binding of the heap (src/fext/eheapq.cpp)       *)
(*                                                                         *)
(* The heap of the binding stores objects and PyObjectCompare compares the *)
(* keys key_map gives them.  An element of the model's heap is the pair    *)
(* <<o, k>> of the object and the key key_map gives it, NoKey when it      *)
(* gives none; key_map changes before and after a call on the heap, never  *)
(* during one, and the pairs are brought up to date with every change.     *)

Objects == 1..MaxObject

PyKeys == 1..MaxKey

KeyOf(km, o) == IF o \in DOMAIN km THEN km[o] ELSE NoKey

Keyed(km, item) == IF item = NoItem THEN NoItem ELSE <<item[1], KeyOf(km, item[1])>>

\* The heap h as the compare sees it with the keys km.
KeyedHeap(h, km) ==
  [h EXCEPT
     !.heap = [i \in 1..Len(h.heap) |-> Keyed(km, h.heap[i])],
     !.index_map = [x \in {Keyed(km, y) : y \in DOMAIN h.index_map} |->
                      h.index_map[CHOOSE y \in DOMAIN h.index_map : Keyed(km, y) = x]],
     !.last_item = Keyed(km, h.last_item),
     !.max_item = Keyed(km, h.max_item)]

\* PyObjectCompare::removed_callback for every element push handed to it.
removed_callback(km, cb) == [x \in (DOMAIN km) \ {cb[i][1] : i \in 1..Len(cb)} |-> km[x]]

\* What a call of the binding ends in: s, the state the heap's operation
\* ended in; km, key_map; exc, the Python exception set, or terminate for a
\* C++ exception that no handler of the binding catches; ret, the element
\* returned.
Ended(s, km, exc, ret) == [heap |-> s, key_map |-> km, exc |-> exc, ret |-> ret]

\* ExtHeapQueue_push after key_map->insert({item, key}) (km) and heap->push
\* (s).  FEXT_DANGEROUS is defined, so there is no test of key_map first.
ExtHeapQueue_push_done(km, o, s) ==
  IF s.exc = "EHeapQAlreadyPresent" THEN Ended(s, MapErase(km, o), "ValueError", NoItem)
  ELSE IF s.exc # NoExc THEN Ended(s, km, "terminate", NoItem)
  ELSE Ended(s, removed_callback(km, s.cb), NoExc, NoItem)

ExtHeapQueue_push_keyed(h, km, o) ==
  ExtHeapQueue_push_done(km, o, push(Begin(KeyedHeap(h, km)), <<o, km[o]>>))

ExtHeapQueue_push(h, km, o, key) == ExtHeapQueue_push_keyed(h, MapInsert(km, o, key), o)

ExtHeapQueue_pushpop_done(km, o, s) ==
  IF s.exc = "EHeapQAlreadyPresent" THEN Ended(s, MapErase(km, o), "ValueError", NoItem)
  ELSE IF s.exc # NoExc THEN Ended(s, km, "terminate", NoItem)
  ELSE Ended(s, km, NoExc, s.ret)

ExtHeapQueue_pushpop_keyed(h, km, o) ==
  ExtHeapQueue_pushpop_done(km, o, pushpop(Begin(KeyedHeap(h, km)), <<o, km[o]>>))

ExtHeapQueue_pushpop(h, km, o, key) ==
  ExtHeapQueue_pushpop_keyed(h, MapInsert(km, o, key), o)

ExtHeapQueue_pop_done(km, s) ==
  IF s.exc = "EHeapQEmpty" THEN Ended(s, km, "KeyError", NoItem)
  ELSE IF s.exc # NoExc THEN Ended(s, km, "terminate", NoItem)
  ELSE Ended(s, MapErase(km, s.ret[1]), NoExc, s.ret)

ExtHeapQueue_pop(h, km) == ExtHeapQueue_pop_done(km, pop(Begin(h)))

ExtHeapQueue_remove_done(km, o, s) ==
  IF s.exc = "EHeapQEmpty" THEN Ended(s, km, "KeyError", NoItem)
  ELSE IF s.exc = "EHeapQNotFound" THEN Ended(s, km, "ValueError", NoItem)
  ELSE IF s.exc # NoExc THEN Ended(s, km, "terminate", NoItem)
  ELSE Ended(s, MapErase(km, o), NoExc, NoItem)

ExtHeapQueue_remove(h, km, o) ==
  ExtHeapQueue_remove_done(km, o, remove(Begin(h), Keyed(km, <<o, NoKey>>)))

ExtHeapQueue_clear(h, km) == Ended(clear(Begin(h)), EmptyMap, NoExc, NoItem)

\* One call of the binding on hq and key_map: b is what the call ended in.
PyCall(op, arg, b) ==
  \E o \in Outcomes(b.heap) :
    IF o.exc \in Fatal \/ b.exc \in Fatal
    THEN /\ hq' = hq
         /\ key_map' = key_map
         /\ res' = [op |-> op, arg |-> arg, ret |-> NoItem, cb |-> <<>>,
                    exc |-> IF o.exc \in Fatal THEN o.exc ELSE b.exc]
    ELSE /\ hq' = KeyedHeap(Obj(o), b.key_map)
         /\ key_map' = b.key_map
         /\ res' = [op |-> op, arg |-> arg, ret |-> b.ret, cb |-> o.cb, exc |-> b.exc]

PyPush(o, key) == Live /\ PyCall("push", <<o, key>>, ExtHeapQueue_push(hq, key_map, o, key))

PyPushPop(o, key) ==
  Live /\ PyCall("pushpop", <<o, key>>, ExtHeapQueue_pushpop(hq, key_map, o, key))

PyPop == Live /\ PyCall("pop", NoItem, ExtHeapQueue_pop(hq, key_map))

PyRemove(o) ==
  Live /\ PyCall("remove", Keyed(key_map, <<o, NoKey>>), ExtHeapQueue_remove(hq, key_map, o))

PyClear == Live /\ PyCall("clear", NoItem, ExtHeapQueue_clear(hq, key_map))

-----------------------------------------------------------------------------
(* Spec: every public operation of a heap constructed with any size *)

Init ==
  /\ \E size \in Sizes : hq = EHeapQ(size)
  /\ res = NoCall
  /\ log = <<>>
  /\ ed = NoDict
  /\ eres = NoECall
  /\ key_map = EmptyMap

Next ==
  \/ \E item \in Items : Push(item) /\ UNCHANGED <<log, ed, eres, key_map>>
  \/ \E item \in Items : PushPop(item) /\ UNCHANGED <<log, ed, eres, key_map>>
  \/ Pop /\ UNCHANGED <<log, ed, eres, key_map>>
  \/ \E item \in Items : Replace(item) /\ UNCHANGED <<log, ed, eres, key_map>>
  \/ \E item \in Items : Remove(item) /\ UNCHANGED <<log, ed, eres, key_map>>
  \/ \E n \in Sizes : SetSize(n) /\ UNCHANGED <<log, ed, eres, key_map>>
  \/ Clear /\ UNCHANGED <<log, ed, eres, key_map>>
  \/ GetTop /\ UNCHANGED <<log, ed, eres, key_map>>
  \/ GetLast /\ UNCHANGED <<log, ed, eres, key_map>>
  \/ GetPeak /\ UNCHANGED <<log, ed, eres, key_map>>

Spec == Init /\ [][Next]_vars

-----------------------------------------------------------------------------
(* SpecCore: push, pushpop, pop, replace and remove, and the three getters *)

NextCore ==
  \/ \E item \in Items : Push(item) /\ UNCHANGED <<log, ed, eres, key_map>>
  \/ \E item \in Items : PushPop(item) /\ UNCHANGED <<log, ed, eres, key_map>>
  \/ Pop /\ UNCHANGED <<log, ed, eres, key_map>>
  \/ \E item \in Items : Replace(item) /\ UNCHANGED <<log, ed, eres, key_map>>
  \/ \E item \in Items : Remove(item) /\ UNCHANGED <<log, ed, eres, key_map>>
  \/ GetTop /\ UNCHANGED <<log, ed, eres, key_map>>
  \/ GetLast /\ UNCHANGED <<log, ed, eres, key_map>>
  \/ GetPeak /\ UNCHANGED <<log, ed, eres, key_map>>

SpecCore == Init /\ [][NextCore]_vars

-----------------------------------------------------------------------------
(* SpecCmp: an unbounded heap whose items may fail to compare *)

\* Items 1..MaxItem compare with one another; so do the unorderable ones;
\* a comparison across the two groups throws.
CmpItems == Items \cup {<<MaxItem - u, u>> : u \in Unorderable}

InitCmp ==
  /\ hq = EHeapQ(EHEAPQ_DEFAULT_SIZE)
  /\ res = NoCall
  /\ log = <<>>
  /\ ed = NoDict
  /\ eres = NoECall
  /\ key_map = EmptyMap

NextCmp ==
  \/ \E item \in CmpItems :
       Len(hq.heap) < MaxHeap /\ Push(item) /\ UNCHANGED <<log, ed, eres, key_map>>
  \/ \E item \in CmpItems : PushPop(item) /\ UNCHANGED <<log, ed, eres, key_map>>
  \/ Pop /\ UNCHANGED <<log, ed, eres, key_map>>
  \/ \E item \in CmpItems : Replace(item) /\ UNCHANGED <<log, ed, eres, key_map>>

SpecCmp == InitCmp /\ [][NextCmp]_vars

-----------------------------------------------------------------------------
(* SpecTies: a heap of any size whose items may compare as equivalent *)

\* Pairs compared on their second component, as the binding's pairs are:
\* <<1, 1>> and <<2, 1>> are different items, neither less than the other.
TieItems == {<<1, 1>>, <<2, 1>>, <<3, 2>>}

NextTies ==
  \/ \E item \in TieItems : Push(item) /\ UNCHANGED <<log, ed, eres, key_map>>
  \/ \E item \in TieItems : PushPop(item) /\ UNCHANGED <<log, ed, eres, key_map>>
  \/ Pop /\ UNCHANGED <<log, ed, eres, key_map>>
  \/ \E item \in TieItems : Replace(item) /\ UNCHANGED <<log, ed, eres, key_map>>

SpecTies == Init /\ [][NextTies]_vars

-----------------------------------------------------------------------------
(* SpecPush: pushes of pairwise distinct items only, on a heap of any size *)

LoadItems == {<<i, i>> : i \in 1..MaxLoad}

Pushed == {log[i].arg : i \in {j \in 1..Len(log) : log[j].op = "push"}}

InitPush ==
  /\ \E size \in Sizes : hq = EHeapQ(size)
  /\ res = NoCall
  /\ log = <<>>
  /\ ed = NoDict
  /\ eres = NoECall
  /\ key_map = EmptyMap

PushNew(item) == item \notin Pushed /\ Push(item) /\ log' = Append(log, res')

NextPush == \E item \in LoadItems : PushNew(item) /\ UNCHANGED <<ed, eres, key_map>>

SpecPush == InitPush /\ [][NextPush]_vars

-----------------------------------------------------------------------------
(* SpecSort: an unbounded heap loaded by push, then emptied by pop *)

InitSort ==
  /\ hq = EHeapQ(EHEAPQ_DEFAULT_SIZE)
  /\ res = NoCall
  /\ log = <<>>
  /\ ed = NoDict
  /\ eres = NoECall
  /\ key_map = EmptyMap

Loading == \A i \in 1..Len(log) : log[i].op = "push"

Load(item) == Loading /\ PushNew(item)

Drain == Len(hq.heap) > 0 /\ Pop /\ log' = Append(log, res')

NextSort ==
  \/ \E item \in LoadItems : Load(item) /\ UNCHANGED <<ed, eres, key_map>>
  \/ Drain /\ UNCHANGED <<ed, eres, key_map>>

SpecSort == InitSort /\ [][NextSort]_vars

-----------------------------------------------------------------------------
(* SpecDict: every modifying operation of a dictionary of any size *)

\* The keys and values of this specification: two keys are enough for a pair
\* to be moved inside the heap by the removal of another.
DictKeys == {"a", "b"}

DictValues == {1, 5}

InitDict ==
  /\ hq = EHeapQ(0)
  /\ res = NoCall
  /\ log = <<>>
  /\ \E size \in Sizes : ed = EDict(size)
  /\ eres = NoECall
  /\ key_map = EmptyMap

NextDict ==
  \/ \E key \in DictKeys, value \in DictValues : DictSet(key, value) /\ UNCHANGED <<hq, res, log, key_map>>
  \/ \E key \in DictKeys, value \in DictValues :
       DictSetOrReplace(key, value) /\ UNCHANGED <<hq, res, log, key_map>>
  \/ \E key \in DictKeys : DictRemove(key) /\ UNCHANGED <<hq, res, log, key_map>>
  \/ \E n \in Sizes : DictSetSize(n) /\ UNCHANGED <<hq, res, log, key_map>>
  \/ DictClear /\ UNCHANGED <<hq, res, log, key_map>>

SpecDict == InitDict /\ [][NextDict]_vars

-----------------------------------------------------------------------------
(* SpecRollback: set_or_replace calls with values that may fail to compare *)

NextRollback ==
  \E key \in DictKeys, value \in DictValues \cup Unorderable :
    DictSetOrReplace(key, value) /\ UNCHANGED <<hq, res, log, key_map>>

SpecRollback == InitDict /\ [][NextRollback]_vars

-----------------------------------------------------------------------------
(* SpecSet: set calls only, with both callbacks, on a dictionary of any size *)

InitSet ==
  /\ hq = EHeapQ(0)
  /\ res = NoCall
  /\ log = <<>>
  /\ \E size \in Sizes : ed = EDict(size)
  /\ eres = NoECall
  /\ key_map = EmptyMap

LoggedSet(key, value) ==
  /\ Len(log) < MaxCalls
  /\ DictSet(key, value)
  /\ log' = Append(log, eres')

NextSet == \E key \in Keys, value \in Values : LoggedSet(key, value) /\ UNCHANGED <<hq, res, key_map>>

SpecSet == InitSet /\ [][NextSet]_vars

-----------------------------------------------------------------------------
(* SpecReplace: set_or_replace calls only, with both callbacks *)

LoggedSetOrReplace(key, value) ==
  /\ Len(log) < MaxReplace
  /\ DictSetOrReplace(key, value)
  /\ log' = Append(log, eres')

NextReplace ==
  \E key \in Keys, value \in DictValues :
    LoggedSetOrReplace(key, value) /\ UNCHANGED <<hq, res, key_map>>

SpecReplace == InitSet /\ [][NextReplace]_vars

-----------------------------------------------------------------------------
(* SpecGet: the operations of SpecDict and get, with a record of what the   *)
(* calls made so far allow get to answer                                     *)

\* What get(key) may answer, kept in log for every key: a set of values,
\* where 0 stands for EDictKeyError.
Absent == {0}

Unknown == DictValues \cup {0}

Stored(g) == {k \in DOMAIN g : g[k] # Absent}

KeysOf(pairs) == {pairs[i][1] : i \in 1..Len(pairs)}

\* The pairs a set_or_replace reports as evicted: all it handed to
\* on_removed but the old pair of the key, which it reports last.
EvictedBy(g, r) ==
  IF r.op = "set_or_replace" /\ g[r.key] # Absent /\ r.removed # <<>>
  THEN SubSeq(r.removed, 1, Len(r.removed) - 1)
  ELSE r.removed

\* The record after the call with result r.  A set or set_or_replace gives
\* the key its value and the evicted keys none (when it is open whether the
\* key was stored, it is open which of the reported pairs were evicted); remove and clear take keys
\* away; set_size(n) takes every key away when n is 0, none when n keys or
\* fewer are stored, and otherwise leaves open which ones stay; a call that
\* failed in the middle leaves everything open.
Expected(g, r) ==
  IF r.exc \in {"EDictAlreadyPresent", "EDictKeyError"} \/ r.op = "get" THEN g
  ELSE IF r.exc # NoExc THEN [k \in DOMAIN g |-> Unknown]
  ELSE IF r.op \in {"set", "set_or_replace"}
  THEN [k \in DOMAIN g |->
          IF r.op = "set_or_replace" /\ g[r.key] = Unknown /\ k \in KeysOf(r.removed)
          THEN Unknown
          ELSE IF k \in KeysOf(EvictedBy(g, r)) THEN Absent
          ELSE IF k = r.key THEN {r.value} ELSE g[k]]
  ELSE IF r.op = "remove" THEN [g EXCEPT ![r.key] = Absent]
  ELSE IF r.op = "clear" THEN [k \in DOMAIN g |-> Absent]
  ELSE IF r.value >= Cardinality(Stored(g)) THEN g
  ELSE IF r.value = 0 THEN [k \in DOMAIN g |-> Absent]
  ELSE [k \in DOMAIN g |-> IF g[k] = Absent THEN Absent ELSE Unknown]

InitGet ==
  /\ hq = EHeapQ(0)
  /\ res = NoCall
  /\ log = [k \in DictKeys |-> Absent]
  /\ \E size \in Sizes : ed = EDict(size)
  /\ eres = NoECall
  /\ key_map = EmptyMap

Recorded(A) == A /\ log' = Expected(log, eres') /\ UNCHANGED <<hq, res, key_map>>

NextGet ==
  \/ \E key \in DictKeys, value \in DictValues : Recorded(DictSet(key, value))
  \/ \E key \in DictKeys, value \in DictValues : Recorded(DictSetOrReplace(key, value))
  \/ \E key \in DictKeys : Recorded(DictRemove(key))
  \/ \E n \in Sizes : Recorded(DictSetSize(n))
  \/ Recorded(DictClear)
  \/ \E key \in DictKeys : Recorded(DictGet(key))

SpecGet == InitGet /\ [][NextGet]_vars

-----------------------------------------------------------------------------
(* SpecClear: a heap of any size is driven by every public operation; from  *)
(* its first clear() on, a newly constructed heap of the same size, kept in *)
(* log, is given the same calls                                              *)

\* What one build makes of a call that ended in s: a checked build aborts
\* on undefined behaviour, the others carry on.
Outcome(s, checked) == IF s.ub # "none" /\ checked THEN Raise(s, "abort") ELSE s

Cleared == log # <<>>

Fresh == log[1].hq

\* The first clear(): the newly constructed heap starts here.
ClearFirst ==
  /\ ~Cleared
  /\ Clear
  /\ log' = <<[hq |-> EHeapQ(get_size(hq)), res |-> res']>>

BothLive == Cleared /\ Live /\ log[1].res.exc \notin Fatal /\ ~Fresh.underflow

\* One call on hq and on the new heap, in the same build: s and f are the
\* working states the operation ended in on the one and on the other.
Both(op, arg, s, f) ==
  \E checked \in BOOLEAN :
    /\ hq' = IF Outcome(s, checked).exc \in Fatal THEN hq ELSE Obj(Outcome(s, checked))
    /\ res' = Result(op, arg, Outcome(s, checked))
    /\ log' = <<[hq |-> IF Outcome(f, checked).exc \in Fatal THEN Fresh
                        ELSE Obj(Outcome(f, checked)),
                 res |-> Result(op, arg, Outcome(f, checked))]>>

InitClear ==
  /\ \E size \in Sizes : hq = EHeapQ(size)
  /\ res = NoCall
  /\ log = <<>>
  /\ ed = NoDict
  /\ eres = NoECall
  /\ key_map = EmptyMap

NextClear ==
  \/ \E item \in Items : ~Cleared /\ Push(item) /\ UNCHANGED <<log, ed, eres, key_map>>
  \/ \E item \in Items : ~Cleared /\ PushPop(item) /\ UNCHANGED <<log, ed, eres, key_map>>
  \/ ~Cleared /\ Pop /\ UNCHANGED <<log, ed, eres, key_map>>
  \/ \E item \in Items : ~Cleared /\ Replace(item) /\ UNCHANGED <<log, ed, eres, key_map>>
  \/ \E item \in Items : ~Cleared /\ Remove(item) /\ UNCHANGED <<log, ed, eres, key_map>>
  \/ \E n \in Sizes : ~Cleared /\ SetSize(n) /\ UNCHANGED <<log, ed, eres, key_map>>
  \/ ~Cleared /\ GetPeak /\ UNCHANGED <<log, ed, eres, key_map>>
  \/ ClearFirst /\ UNCHANGED <<ed, eres, key_map>>
  \/ \E item \in Items :
       /\ BothLive
       /\ Both("push", item, push(Begin(hq), item), push(Begin(Fresh), item))
       /\ UNCHANGED <<ed, eres, key_map>>
  \/ \E item \in Items :
       /\ BothLive
       /\ Both("pushpop", item, pushpop(Begin(hq), item), pushpop(Begin(Fresh), item))
       /\ UNCHANGED <<ed, eres, key_map>>
  \/ /\ BothLive
     /\ Both("pop", NoItem, pop(Begin(hq)), pop(Begin(Fresh)))
     /\ UNCHANGED <<ed, eres, key_map>>
  \/ \E item \in Items :
       /\ BothLive
       /\ Both("replace", item, replace(Begin(hq), item), replace(Begin(Fresh), item))
       /\ UNCHANGED <<ed, eres, key_map>>
  \/ \E item \in Items :
       /\ BothLive
       /\ Both("remove", item, remove(Begin(hq), item), remove(Begin(Fresh), item))
       /\ UNCHANGED <<ed, eres, key_map>>
  \/ \E n \in Sizes :
       /\ BothLive
       /\ Both("set_size", NoItem, set_size(Begin(hq), n), set_size(Begin(Fresh), n))
       /\ UNCHANGED <<ed, eres, key_map>>
  \/ /\ BothLive
     /\ Both("clear", NoItem, clear(Begin(hq)), clear(Begin(Fresh)))
     /\ UNCHANGED <<ed, eres, key_map>>
  \/ /\ BothLive
     /\ Both("get_top", NoItem, get_top(Begin(hq)), get_top(Begin(Fresh)))
     /\ UNCHANGED <<ed, eres, key_map>>
  \/ /\ BothLive
     /\ Both("get_last", NoItem, get_last(Begin(hq)), get_last(Begin(Fresh)))
     /\ UNCHANGED <<ed, eres, key_map>>
  \/ /\ BothLive
     /\ Both("get_peak", NoItem, get_peak(Begin(hq)), get_peak(Begin(Fresh)))
     /\ UNCHANGED <<ed, eres, key_map>>

SpecClear == InitClear /\ [][NextClear]_vars

-----------------------------------------------------------------------------
(* SpecBinding: push, pushpop, pop, remove and clear of the Python binding  *)
(* on a heap of any size                                                    *)

InitBinding ==
  /\ \E size \in Sizes : hq = EHeapQ(size)
  /\ res = NoCall
  /\ log = <<>>
  /\ ed = NoDict
  /\ eres = NoECall
  /\ key_map = EmptyMap

NextBinding ==
  \/ \E o \in Objects, key \in PyKeys : PyPush(o, key) /\ UNCHANGED <<log, ed, eres>>
  \/ \E o \in Objects, key \in PyKeys : PyPushPop(o, key) /\ UNCHANGED <<log, ed, eres>>
  \/ PyPop /\ UNCHANGED <<log, ed, eres>>
  \/ \E o \in Objects : PyRemove(o) /\ UNCHANGED <<log, ed, eres>>
  \/ PyClear /\ UNCHANGED <<log, ed, eres>>

SpecBinding == InitBinding /\ [][NextBinding]_vars

-----------------------------------------------------------------------------
(* The claims *)

\* C1 (index coherence): after any sequence of calls that has not ended the
\* process, the keys of index_map are exactly the elements of the array, and
\* index_map gives every element of the array the position it is stored at.
C1_IndexCoherence ==
  ~Exited =>
    /\ DOMAIN hq.index_map = Range(hq.heap)
    /\ \A i \in 1..Len(hq.heap) :
         hq.heap[i] \in DOMAIN hq.index_map /\ hq.index_map[hq.heap[i]] = i - 1

\* C2 (heap property): after any sequence of push, pushpop, pop, replace and
\* remove calls, no element of the array compares less than its parent, the
\* element at position (i - 1) / 2.
C2_HeapProperty ==
  ~Exited =>
    \A i \in 2..Len(hq.heap) : ~comp(hq.heap[i], hq.heap[((i - 2) \div 2) + 1])

\* C3 (remove): a remove(item) on a heap whose array holds item returns
\* normally and leaves the array's set of elements equal to the previous set
\* minus item; on a heap whose array does not hold item it throws
\* EHeapQNotFound and changes nothing.
C3_RemoveExact ==
  [][(res'.op = "remove" /\ ~Exited') =>
       IF res'.arg \in Range(hq.heap)
       THEN /\ res'.exc = NoExc
            /\ ~hq'.underflow
            /\ Range(hq'.heap) = Range(hq.heap) \ {res'.arg}
       ELSE /\ res'.exc = "EHeapQNotFound"
            /\ hq' = hq]_vars

\* C4 (uniqueness): after any sequence of push, pushpop, pop, replace and
\* remove calls the array never holds the same element at two positions.
C4_Uniqueness ==
  ~Exited =>
    \A i, j \in 1..Len(hq.heap) : i # j => hq.heap[i] # hq.heap[j]

\* C5 (capacity bound): after every public operation that has not ended the
\* process, get_length() is at most the capacity get_size().
C5_CapacityBound == ~Exited => get_length(hq) <= get_size(hq)

\* The number of times the removal callback has been invoked by the calls
\* of the history.
RECURSIVE RemovedCalls(_)
RemovedCalls(l) == IF l = <<>> THEN 0 ELSE Len(l[1].cb) + RemovedCalls(Tail(l))

\* C6 (eviction count): on a heap of capacity C that has only been pushed
\* pairwise distinct items, after n pushes the removal callback has been
\* invoked max(0, n - C) times.
C6_EvictionCount ==
  ~Exited =>
    RemovedCalls(log) = IF Len(log) > hq.size THEN Len(log) - hq.size ELSE 0

\* C7 (get_peak): a get_peak() that returns gives an element of the array
\* that no element of the array exceeds under comp.
C7_PeakIsMaximum ==
  (res.op = "get_peak" /\ res.exc = NoExc) =>
    /\ res.ret \in Range(hq.heap)
    /\ \A e \in Range(hq.heap) : ~comp(res.ret, e)

\* The call before this one inserted its argument, which is stored.
JustInserted ==
  /\ res.op \in {"push", "pushpop", "replace"}
  /\ res.exc = NoExc
  /\ res.op = "pushpop" => res.ret # res.arg
  /\ res.arg \in Range(hq.heap)

\* C8 (get_last): a get_last() that returns gives an element stored in the
\* array; and called right after a push, pushpop or replace that inserted an
\* item which is stored, it returns that item.
C8_LastIsStored ==
  [][(res'.op = "get_last" /\ ~Exited') =>
       /\ res'.exc = NoExc => res'.ret \in Range(hq'.heap)
       /\ JustInserted => (res'.exc = NoExc /\ res'.ret = res.arg)]_vars

IsPop(r) == r.op = "pop"

Pops == SelectSeq(log, IsPop)

Popped(n) == {Pops[k].ret : k \in 1..n}

\* C9 (sorted extraction): on an unbounded heap loaded by push with distinct
\* items and then emptied by pop, no call throws, every pop returns an item
\* that was pushed, was not popped before and is not exceeded under comp by
\* any item still stored, and the array holds exactly the pushed items not
\* popped yet: so the pops that empty the heap return every pushed item
\* once, in ascending order.
C9_SortedExtraction ==
  /\ \A i \in 1..Len(log) : log[i].exc = NoExc
  /\ \A j \in 1..Len(Pops) :
       /\ Pops[j].ret \in Pushed \ Popped(j - 1)
       /\ \A x \in Pushed \ Popped(j - 1) : ~comp(x, Pops[j].ret)
  /\ Range(hq.heap) = Pushed \ Popped(Len(Pops))
  /\ Len(hq.heap) = Cardinality(Pushed) - Len(Pops)

\* MaxLoad items were pushed and the pops have emptied the heap.
C9_Drained ==
  /\ Cardinality(Pushed) = MaxLoad
  /\ Len(Pops) = MaxLoad
  /\ hq.heap = <<>>

PairsOf(dict) == {<<k, dict[k]>> : k \in DOMAIN dict}

\* The calls of the example: set("a", 10), set("b", 5), set("c", 1) on a
\* dictionary of capacity 2.
Example ==
  /\ ed.size = 2
  /\ Len(log) = 3
  /\ <<log[1].key, log[1].value>> = <<"a", 10>>
  /\ <<log[2].key, log[2].value>> = <<"b", 5>>
  /\ <<log[3].key, log[3].value>> = <<"c", 1>>

\* C10 as stated (eviction order): a set that brings the number of entries
\* above the capacity evicts the entry with the highest value; after the
\* calls of the example get("a") fails with EDictKeyError, get("b") is 5,
\* get("c") is 1 and the length is 2.
C10_EvictsHighest ==
  /\ [](Example =>
          /\ get(EBegin(ed), "a").exc = "EDictKeyError"
          /\ get(EBegin(ed), "b").exc = NoExc /\ get(EBegin(ed), "b").ret = 5
          /\ get(EBegin(ed), "c").exc = NoExc /\ get(EBegin(ed), "c").ret = 1
          /\ EDict_get_length(ed) = 2)
  /\ [][(eres'.op = "set" /\ eres'.exc = NoExc) =>
          LET all == PairsOf(ed.dict) \cup {<<eres'.key, eres'.value>>}
          IN IF Cardinality(all) > ed.size
             THEN \E victim \in all :
                    /\ \A p \in all : victim[2] >= p[2]
                    /\ eres'.removed = <<victim>>
                    /\ PairsOf(ed'.dict) = all \ {victim}
             ELSE eres'.removed = <<>> /\ PairsOf(ed'.dict) = all]_vars

\* C10 (eviction order, as the code has it): on a dictionary that has only
\* been modified by set calls, a set that returns and brings the number of
\* entries above the capacity evicts an entry with the lowest value, the new
\* entry included, and hands it to the removal callback; a set that does not
\* evicts nothing. After the calls of the example get("c") fails with
\* EDictKeyError, get("a") is 10, get("b") is 5 and the length is 2.
C10_EvictsLowest ==
  /\ [](Example =>
          /\ get(EBegin(ed), "c").exc = "EDictKeyError"
          /\ get(EBegin(ed), "a").exc = NoExc /\ get(EBegin(ed), "a").ret = 10
          /\ get(EBegin(ed), "b").exc = NoExc /\ get(EBegin(ed), "b").ret = 5
          /\ EDict_get_length(ed) = 2)
  /\ [][(eres'.op = "set" /\ eres'.exc = NoExc) =>
          LET all == PairsOf(ed.dict) \cup {<<eres'.key, eres'.value>>}
          IN IF Cardinality(all) > ed.size
             THEN \E victim \in all :
                    /\ \A p \in all : victim[2] <= p[2]
                    /\ eres'.removed = <<victim>>
                    /\ PairsOf(ed'.dict) = all \ {victim}
             ELSE eres'.removed = <<>> /\ PairsOf(ed'.dict) = all]_vars

\* The third set of the example has evicted the pair it was adding.
C10_ExampleEvicted == Example /\ eres.exc = NoExc /\ eres.removed = <<(<<"c", 1>>)>>

\* C11 (dict/heap lockstep): after any sequence of set, set_or_replace,
\* remove, set_size and clear that has not ended the process, the keys of the
\* hash table are the keys of the pairs in the heap array, and every pair of
\* the array carries the value the hash table holds for its key.
C11_Lockstep ==
  eres.exc \notin Fatal =>
    /\ DOMAIN ed.dict = {p[1] : p \in Range(ed.heap.heap)}
    /\ \A p \in Range(ed.heap.heap) : p[1] \in DOMAIN ed.dict /\ ed.dict[p[1]] = p[2]

\* The dictionary without key, as set_or_replace leaves it before it calls set.
Without(key) ==
  LET h == remove(Begin(ed.heap), <<key, ed.dict[key]>>)
  IN [EBegin(ed) EXCEPT !.heap = Obj(h), !.exc = h.exc, !.dict = MapErase(@, key)]

\* set_or_replace(key, value) finds key, takes its pair out, and the insertion
\* of the new pair fails on a comparison.
InsertionFails(key, value) ==
  /\ key \in DOMAIN ed.dict
  /\ Without(key).exc = NoExc
  /\ set(Without(key), key, value, TRUE).exc = "ObjCmpErr"

\* C12 (replace rollback): a set_or_replace(k, v2) on a dictionary that holds
\* k with v1, whose insertion of (k, v2) fails on a comparison, ends with
\* that error propagated, get(k) giving v1, the length it had before the
\* call, and (k, v1) in the heap array at the position index_map records.
C12_ReplaceRollback ==
  [][(eres'.op = "set_or_replace" /\ InsertionFails(eres'.key, eres'.value)) =>
       LET k == eres'.key
           old == <<k, ed.dict[k]>>
       IN /\ eres'.exc = "ObjCmpErr"
          /\ get(EBegin(ed'), k).exc = NoExc
          /\ get(EBegin(ed'), k).ret = old[2]
          /\ EDict_get_length(ed') = EDict_get_length(ed)
          /\ old \in DOMAIN ed'.heap.index_map
          /\ ed'.heap.index_map[old] < Len(ed'.heap.heap)
          /\ ed'.heap.heap[ed'.heap.index_map[old] + 1] = old]_vars

\* C13 (strong error safety of push): a push that ends with a comparison
\* error leaves every field of the heap as it was before the call.
C13_PushStrongSafety ==
  [][(res'.op = "push" /\ res'.exc = "ObjCmpErr") => hq' = hq]_vars

\* The pairs handed to added_callback and to removed_callback by the calls of
\* the history, in order.
RECURSIVE AddedBy(_)
AddedBy(l) == IF l = <<>> THEN <<>> ELSE l[1].added \o AddedBy(Tail(l))

RECURSIVE RemovedBy(_)
RemovedBy(l) == IF l = <<>> THEN <<>> ELSE l[1].removed \o RemovedBy(Tail(l))

Occurrences(s, x) == Cardinality({i \in 1..Len(s) : s[i] = x})

\* C14 (callback balance): after every set_or_replace of a history of
\* set_or_replace calls with both callbacks, the number of added calls minus
\* the number of removed calls is the length, and the pairs added once more
\* than removed are exactly the stored pairs, every other pair having been
\* removed as often as added.
C14_CallbackBalance ==
  eres.exc \notin Fatal =>
    LET A == AddedBy(log)
        R == RemovedBy(log)
    IN /\ Len(A) - Len(R) = EDict_get_length(ed)
       /\ \A p \in Range(A) \cup Range(R) \cup PairsOf(ed.dict) :
            Occurrences(A, p) - Occurrences(R, p) = IF p \in PairsOf(ed.dict) THEN 1 ELSE 0

\* Inserting item into hq without a capacity limit, then popping the root.
InsertThenPop(item) == pop(push_append(Begin(hq), item))

\* item and the root of hq compare as equivalent.
TiesWithRoot(item) ==
  /\ Len(hq.heap) > 0
  /\ ~comp(hq.heap[1], item)
  /\ ~comp(item, hq.heap[1])

C16_HandBackUnlessItemLess ==
  [][(res'.op = "pushpop" /\ res'.arg \notin Range(hq.heap) /\ Len(hq.heap) > 0) =>
       /\ res'.exc = NoExc
       /\ IF ~comp(res'.arg, hq.heap[1])
          THEN /\ res'.ret = res'.arg
               /\ hq'.heap = hq.heap
               /\ hq'.index_map = hq.index_map
          ELSE /\ res'.ret = hq.heap[1]
               /\ Range(hq'.heap) = (Range(hq.heap) \ {hq.heap[1]}) \cup {res'.arg}]_vars

\* C16 (as the code has it): on a heap reached by push, pushpop, pop and
\* replace calls, a pushpop(item) of an item that is not stored returns item
\* and leaves the array and index_map untouched exactly when the heap is
\* empty or comp(root, item) is false; otherwise item takes the place of the
\* root and the old root is returned.
C16_HandBackUnlessRootLess ==
  [][(res'.op = "pushpop" /\ res'.arg \notin Range(hq.heap)) =>
       /\ res'.exc = NoExc
       /\ IF Len(hq.heap) = 0 \/ ~comp(hq.heap[1], res'.arg)
          THEN /\ res'.ret = res'.arg
               /\ hq'.heap = hq.heap
               /\ hq'.index_map = hq.index_map
          ELSE /\ res'.ret = hq.heap[1]
               /\ res'.ret # res'.arg
               /\ Range(hq'.heap) = (Range(hq.heap) \ {hq.heap[1]}) \cup {res'.arg}]_vars

\* A pushpop on a non-empty heap has handed its item back.
C16_HandedBack ==
  /\ res.op = "pushpop"
  /\ res.exc = NoExc
  /\ res.ret = res.arg
  /\ res.arg \notin Range(hq.heap)
  /\ Len(hq.heap) >= 1

C18_ReplaceExact ==
  [][(res'.op = "replace" /\ ~Exited') =>
       IF Len(hq.heap) = 0
       THEN res'.exc = "EHeapQEmpty" /\ hq' = hq
       ELSE IF res'.arg \in Range(hq.heap)
       THEN res'.exc = "EHeapQAlreadyPresent" /\ hq' = hq
       ELSE /\ res'.exc = NoExc
            /\ res'.ret = hq.heap[1]
            /\ Range(hq'.heap) = (Range(hq.heap) \ {hq.heap[1]}) \cup {res'.arg}
            /\ Len(hq'.heap) = Len(hq.heap)]_vars

\* C19 (duplicate rejection): a push, pushpop or replace of an item that the
\* array holds throws EHeapQAlreadyPresent and leaves every field of the heap
\* as it was.
C19_DuplicateRejected ==
  [][(res'.op \in {"push", "pushpop", "replace"} /\ res'.arg \in Range(hq.heap)
        /\ ~Exited') =>
       res'.exc = "EHeapQAlreadyPresent" /\ hq' = hq]_vars

\* The invariants of a heap: index coherence, heap property, uniqueness and
\* capacity bound.
Invariants(h) ==
  /\ DOMAIN h.index_map = Range(h.heap)
  /\ \A i \in 1..Len(h.heap) : h.index_map[h.heap[i]] = i - 1
  /\ \A i \in 2..Len(h.heap) : ~comp(h.heap[i], h.heap[((i - 2) \div 2) + 1])
  /\ \A i, j \in 1..Len(h.heap) : i # j => h.heap[i] # h.heap[j]
  /\ get_length(h) <= get_size(h)

\* C20 (empty errors): a pop, get_top, get_peak, replace or get_last on a heap
\* with no elements throws EHeapQEmpty and leaves every field of the heap as
\* it was; a push that follows returns normally and the invariants hold
\* after it.
C20_EmptyErrors ==
  [][(res'.op \in {"pop", "get_top", "get_peak", "replace", "get_last"}
        /\ Len(hq.heap) = 0 /\ ~Exited') =>
       /\ res'.exc = "EHeapQEmpty"
       /\ hq' = hq
       /\ \A item \in Items :
            /\ push(Begin(hq'), item).exc = NoExc
            /\ Invariants(Obj(push(Begin(hq'), item)))]_vars

\* C21 (map capacity bound): after a set, set_or_replace, remove, set_size or
\* clear has returned, the length of the dictionary is at most its size, and
\* the hash table and the heap hold the same number of entries.
C21_MapCapacityBound ==
  (eres.op \in {"set", "set_or_replace", "remove", "set_size", "clear"}
     /\ eres.exc = NoExc) =>
    /\ EDict_get_length(ed) <= ed.size
    /\ EDict_get_length(ed) = get_length(ed.heap)

\* C22 (set_size on the heap): set_size(n) returns with get_size() = n; with
\* n not smaller than the length it leaves the array and index_map as they
\* were; with n smaller than the length it leaves n of the old elements, and
\* no element it keeps is less than an element it dropped.
C22_SetSize ==
  [][\A n \in Sizes :
       SetSize(n) =>
         /\ res'.exc = NoExc
         /\ get_size(hq') = n
         /\ IF n >= get_length(hq)
            THEN hq'.heap = hq.heap /\ hq'.index_map = hq.index_map
            ELSE /\ get_length(hq') = n
                 /\ Range(hq'.heap) \subseteq Range(hq.heap)
                 /\ \A kept \in Range(hq'.heap) :
                      \A dropped \in Range(hq.heap) \ Range(hq'.heap) :
                        ~comp(kept, dropped)]_vars

\* C23 (map lookup): get(k) returns the value of the most recent set or
\* set_or_replace of k when k has not been removed, evicted or cleared since,
\* throws EDictKeyError otherwise, and changes neither the hash table nor the
\* heap.
C23_Lookup ==
  [][eres'.op = "get" =>
       /\ eres'.exc \in {NoExc, "EDictKeyError"}
       /\ (IF eres'.exc = NoExc THEN eres'.ret ELSE 0) \in log[eres'.key]
       /\ ed' = ed]_vars

\* C24 (map removal): remove(k) on a stored key returns the value stored
\* under k and takes the pair (k, value), and nothing else, out of the hash
\* table and out of the heap; on a key that is not stored it throws
\* EDictKeyError and changes nothing.
C24_RemoveExact ==
  [][eres'.op = "remove" =>
       IF eres'.key \in DOMAIN ed.dict
       THEN /\ eres'.exc = NoExc
            /\ eres'.ret = ed.dict[eres'.key]
            /\ ed'.dict = MapErase(ed.dict, eres'.key)
            /\ Range(ed'.heap.heap) =
                 Range(ed.heap.heap) \ {<<eres'.key, ed.dict[eres'.key]>>}
            /\ get_length(ed'.heap) = get_length(ed.heap) - 1
       ELSE eres'.exc = "EDictKeyError" /\ ed' = ed]_vars

\* C25 (peak caching): a get_peak that finds no valid cached peak and returns
\* the peak it has computed leaves that peak as the valid cached peak:
\* max_item is the value returned and max_item_set is true.
C25_PeakCached ==
  [][(res'.op = "get_peak" /\ res'.exc = NoExc /\ ~hq.max_item_set) =>
       hq'.max_item = res'.ret /\ hq'.max_item_set]_vars

\* The keys of the pairs the heap of a dictionary holds.
HeapKeys(d) == {d.heap.heap[i][1] : i \in 1..Len(d.heap.heap)}

\* C26 (map set_size): set_size(n) returns with get_size() = n and with the
\* keys of the hash table equal to the keys of the heap; with n not smaller
\* than the length it removes nothing; with n smaller than the length it
\* leaves n of the old entries in both, none of them with a value less than
\* the value of an entry it removed.
C26_MapSetSize ==
  [][eres'.op = "set_size" =>
       /\ eres'.exc = NoExc
       /\ ed'.size = eres'.value
       /\ DOMAIN ed'.dict = HeapKeys(ed')
       /\ IF eres'.value >= EDict_get_length(ed)
          THEN ed'.dict = ed.dict /\ ed'.heap.heap = ed.heap.heap
          ELSE /\ EDict_get_length(ed') = eres'.value
               /\ get_length(ed'.heap) = eres'.value
               /\ \A k \in DOMAIN ed'.dict : k \in DOMAIN ed.dict /\ ed'.dict[k] = ed.dict[k]
               /\ \A kept \in DOMAIN ed'.dict :
                    \A dropped \in DOMAIN ed.dict \ DOMAIN ed'.dict :
                      ed.dict[kept] >= ed.dict[dropped]]_vars

\* C27 (notification order): in a set or set_or_replace, on_removed is not
\* invoked for a pair before on_added is invoked for that same pair, also
\* when the pair just set is the one the capacity limit evicts.
C27_AddedBeforeRemoved ==
  eres.op \in {"set", "set_or_replace"} =>
    \A i, j \in 1..Len(eres.calls) :
      (i < j /\ eres.calls[i].pair = eres.calls[j].pair) =>
        ~(eres.calls[i].cb = "removed" /\ eres.calls[j].cb = "added")

\* C28 (replacement never evicts): a set_or_replace(k, v) on a dictionary
\* that stores k returns with the same keys, hence the same length, as
\* before; on_removed is invoked once, for the old pair of k, and on_added
\* once, for (k, v).
C28_ReplaceKeepsKeys ==
  [][(eres'.op = "set_or_replace" /\ eres'.key \in DOMAIN ed.dict) =>
       /\ eres'.exc = NoExc
       /\ DOMAIN ed'.dict = DOMAIN ed.dict
       /\ EDict_get_length(ed') = EDict_get_length(ed)
       /\ eres'.removed = << <<eres'.key, ed.dict[eres'.key]>> >>
       /\ eres'.added = << <<eres'.key, eres'.value>> >>]_vars

\* The pairs the hash table of a dictionary holds.
Entries(d) == {<<k, d.dict[k]>> : k \in DOMAIN d.dict}

\* The call that has just ended was a set of a new key on a full dictionary.
Overflowing ==
  /\ eres'.op = "set"
  /\ eres'.key \notin DOMAIN ed.dict
  /\ EDict_get_length(ed) + 1 > ed.size

\* C29 (overflow victim): a set of a new key that brings the length above
\* the size evicts exactly one entry, one whose value no entry's value is
\* less than, the pair just set included; when the pair just set is the
\* victim, get of its key fails after the set, and on_removed and on_added
\* have both been invoked for it.
C29_OverflowVictim ==
  [][Overflowing =>
       /\ eres'.exc = NoExc
       /\ eres'.added = << <<eres'.key, eres'.value>> >>
       /\ Len(eres'.removed) = 1
       /\ eres'.removed[1] \in Entries(ed) \cup {<<eres'.key, eres'.value>>}
       /\ \A p \in Entries(ed) \cup {<<eres'.key, eres'.value>>} :
            ~comp(p, eres'.removed[1])
       /\ Entries(ed') =
            (Entries(ed) \cup {<<eres'.key, eres'.value>>}) \ {eres'.removed[1]}
       /\ (eres'.removed[1] = <<eres'.key, eres'.value>> =>
             get(EBegin(ed'), eres'.key).exc = "EDictKeyError")]_vars

\* C30 (clear resets to a fresh heap): from a clear() on, every call returns
\* on the cleared heap what it returns on a newly constructed heap of the
\* same size given the same calls: the same value, the same exception and
\* the same callback invocations.
C30_ClearedIsFresh == Cleared => res = log[1].res

\* A call after clear() has found the heap with the last-item and cached-peak
\* flags still set, which a newly constructed heap has not.
C30_StaleFlags ==
  /\ Cleared
  /\ res.op \in {"get_last", "get_peak", "pushpop"}
  /\ hq.last_item_set /\ hq.max_item_set
  /\ ~Fresh.last_item_set /\ ~Fresh.max_item_set

\* The objects the array of a heap holds.
ObjectsOf(h) == {h.heap[i][1] : i \in 1..Len(h.heap)}

\* C31 (comparison-key map of the binding): after any sequence of push,
\* pushpop, pop, remove and clear calls of the binding that has not ended
\* the process, key_map has a key for exactly the objects the heap stores,
\* and a push that has stored an object has left it with the key it was
\* given.
C31_KeyMapExact ==
  /\ [](~Exited => DOMAIN key_map = ObjectsOf(hq))
  /\ [][(res'.op = "push" /\ res'.exc = NoExc /\ res'.arg[1] \in ObjectsOf(hq')
          /\ res'.arg[1] \notin ObjectsOf(hq)) =>
         (res'.arg[1] \in DOMAIN key_map' /\ key_map'[res'.arg[1]] = res'.arg[2])]_vars

=============================================================================
